---- MODULE Spec2Model ----
(***************************************************************************)
(* The ledger Shell of apps/src/lib/node/shell/mod.rs: the message loop    *)
(* (Shell::run) with its handlers, over the three collaborators it owns:   *)
(* storage, the write log and the block gas meter.  The Shell is modelled  *)
(* from mod.rs; the collaborators (gas, storage, write_log, protocol) are  *)
(* modelled from their contracts in spec.md sections 4 and 6.              *)
(***************************************************************************)
EXTENDS Integers, Sequences, FiniteSets, TLC

(* ------------------------------ bounds --------------------------------- *)
\* The consensus engine gets at most this many blocks committed and sends
\* heights up to this.
MaxHeight == 1
\* ApplyTx messages are explored while the block gas counter is below this.
MaxGas == 5

(* -------------------------- program constants -------------------------- *)
\* begin_block: "if height.0 == 6" (emergency user VP patch).
PatchHeight == 6
\* Shell::new: Amount::whole(1_000_000), the genesis XAN balance.
XanGenesis == 1000000
\* Shell::new: Amount::whole(1_000), the genesis BTC balance.
BtcGenesis == 1000
\* Gas meter: the configured ceiling of the block-level counter.
BlockGasLimit == 4
\* Pipeline gas charges: per staged write/delete and per VP run.
WriteGas == 1
VpGas == 1

(* ------------------------------ addresses ------------------------------ *)
\* address::adrian(), address::alberto(), ... : two of the built-in users.
Users == {"A", "B"}
\* The tokens of find_balances, in the order of its `tokens` vector.
Tokens == <<"XAN", "BTC">>
TokenSet == {Tokens[i] : i \in 1..Len(Tokens)}

\* token::balance_key(token, owner) and Key::validity_predicate(addr).
balance_key(token, owner) == <<"bal", token, owner>>
validity_predicate(addr) == <<"vp", "-", addr>>

Keys == {balance_key(t, u) : t \in TokenSet, u \in Users}
        \cup {validity_predicate(u) : u \in Users}

(* ------------------------------- values -------------------------------- *)
\* A stored byte string is either the borsh encoding of a token Amount
\* (tag "amt") or other bytes (tag "raw", e.g. VP wasm code).  Within the
\* overlays an entry can also be a deletion marker ("del"); "none" is the
\* absence of an entry / of a value.
NoEntry == [tag |-> "none", v |-> 0]
Del == [tag |-> "del", v |-> 0]
Raw(n) == [tag |-> "raw", v |-> n]
\* Amount::try_to_vec
try_to_vec(amount) == [tag |-> "amt", v |-> amount]
\* Amount::try_from_slice: fails on bytes that are not an encoded Amount.
try_from_slice(b) ==
    IF b.tag = "amt" THEN [ok |-> TRUE, amount |-> b.v]
    ELSE [ok |-> FALSE, amount |-> 0]

\* std::fs::read("vps/vp_user/vp.wasm") and a second, different VP code.
user_vp == Raw(1)
other_vp == Raw(2)

EmptyScope == [k \in Keys |-> NoEntry]

(* ------------------------------- storage ------------------------------- *)
\* PersistentStorage, in memory: the key/value state, the chain id, the last
\* committed (height, hash) and the (height, hash) of the block in progress.
NoHash == "none"
NoChain == "unset"

\* PersistentStorage::new
storage_new ==
    [store |-> EmptyScope, chain_id |-> NoChain,
     height |-> 0, hash |-> NoHash,
     next_height |-> 0, next_hash |-> NoHash]

\* The DB directory: absent, or present with at most one last persisted block.
NoDB == [exists |-> FALSE, has_block |-> FALSE, store |-> EmptyScope,
         chain_id |-> NoChain, height |-> 0, hash |-> NoHash]
EmptyDB == [NoDB EXCEPT !.exists = TRUE]

\* storage.write(key, value)
storage_write(st, key, value) == [st EXCEPT !.store[key] = value]
\* storage.delete(key)
storage_delete(st, key) == [st EXCEPT !.store[key] = NoEntry]
\* storage.read(key): Ok((Option<bytes>, gas))
storage_read(st, key) == IF key \in Keys THEN st.store[key] ELSE NoEntry
\* storage.read(key) as the Result it is: Err when the read fails (io_ok =
\* FALSE), Ok of what is stored otherwise.
storage_read_result(st, key, io_ok) ==
    [ok |-> io_ok, entry |-> IF io_ok THEN storage_read(st, key) ELSE NoEntry]

\* storage.merkle_root(): the digest of the whole key/value state.  The
\* digest is collision-free, so it is identified with the state it commits to.
merkle_root(st) == st.store

\* storage.begin_block(hash, height): accepted only for the successor of the
\* last committed height.
storage_begin_block(st, hash, height) ==
    IF height = st.height + 1
    THEN [ok |-> TRUE,
          st |-> [st EXCEPT !.next_height = height, !.next_hash = hash]]
    ELSE [ok |-> FALSE, st |-> st]

\* storage.commit(): persists the block in progress; io_ok = FALSE is a
\* failure of the DB write, which leaves memory and disk as they were.
storage_commit(st, db, io_ok) ==
    IF io_ok
    THEN LET st2 == [st EXCEPT !.height = st.next_height,
                               !.hash = st.next_hash]
         IN [ok |-> TRUE, st |-> st2,
             db |-> [exists |-> TRUE, has_block |-> TRUE,
                     store |-> st2.store, chain_id |-> st2.chain_id,
                     height |-> st2.height, hash |-> st2.hash]]
    ELSE [ok |-> FALSE, st |-> st, db |-> db]

\* storage.load_last_state(): Ok(Some((root, height))) with the in-memory
\* state replaced by the persisted block, or Ok(None) when there is none.
storage_load_last_state(st, db) ==
    IF db.has_block
    THEN LET st2 == [store |-> db.store, chain_id |-> db.chain_id,
                     height |-> db.height, hash |-> db.hash,
                     next_height |-> db.height, next_hash |-> db.hash]
         IN [some |-> TRUE, root |-> merkle_root(st2), height |-> db.height,
             st |-> st2]
    ELSE [some |-> FALSE, root |-> EmptyScope, height |-> 0, st |-> st]

\* storage.load_last_state() as a Result: io_ok = FALSE is a failure of the
\* DB read, which leaves the in-memory state as it was.
storage_load_last_state_result(st, db, io_ok) ==
    LET r == storage_load_last_state(st, db)
    IN IF io_ok
       THEN [ok |-> TRUE, some |-> r.some, root |-> r.root,
             height |-> r.height, st |-> r.st]
       ELSE [ok |-> FALSE, some |-> FALSE, root |-> EmptyScope, height |-> 0,
             st |-> st]
\* storage.set_chain_id(id): the id is write-once; a different id is refused.
storage_set_chain_id(st, id) ==
    IF st.chain_id = NoChain
    THEN [ok |-> TRUE, st |-> [st EXCEPT !.chain_id = id]]
    ELSE [ok |-> st.chain_id = id, st |-> st]

(* ------------------------------ gas meter ------------------------------ *)
\* BlockGasMeter::default()
gas_default == [block_gas |-> 0, transaction_gas |-> 0]
\* BlockGasMeter::reset(): zeroes the meter at block start.
gas_reset(gm) == [block_gas |-> 0, transaction_gas |-> 0]
\* The per-transaction sub-counter is zeroed when a transaction starts.
gas_start_tx(gm) == [gm EXCEPT !.transaction_gas = 0]
\* BlockGasMeter::add(gas): the addition is recorded, and fails once the
\* block-level counter is above the ceiling.
gas_add(gm, g) ==
    LET gm2 == [block_gas |-> gm.block_gas + g,
                transaction_gas |-> gm.transaction_gas + g]
    IN [ok |-> gm2.block_gas <= BlockGasLimit, gm |-> gm2]
\* BlockGasMeter::get_current_transaction_gas()
get_current_transaction_gas(gm) == gm.transaction_gas
\* gas::as_i64(u64): value-preserving below 2^63.
as_i64(g) == g

(* ------------------------------ write log ------------------------------ *)
\* WriteLog::new()
write_log_new == [tx |-> EmptyScope, block |-> EmptyScope]
\* write_log.write(key, value) / write_log.delete(key): staged in the
\* transaction scope.
wl_stage(wl, key, entry) == [wl EXCEPT !.tx[key] = entry]
\* write_log.read(key) looking at the block scope and storage only.
wl_read_skips_tx_scope(wl, st, key) ==
    LET found(e) == IF e.tag = "del" THEN NoEntry ELSE e
    IN found(IF wl.block[key].tag # "none" THEN wl.block[key]
             ELSE storage_read(st, key))
\* write_log.read(key), falling through to storage: transaction scope, then
\* block scope, then storage; a deletion marker reads as absent.
wl_read(wl, st, key) ==
    LET found(e) == IF e.tag = "del" THEN NoEntry ELSE e
    IN found(IF wl.tx[key].tag # "none" THEN wl.tx[key]
             ELSE IF wl.block[key].tag # "none" THEN wl.block[key]
             ELSE storage_read(st, key))
\* write_log.commit_tx(): the transaction scope is merged over the block
\* scope and cleared.
commit_tx(wl) ==
    [tx |-> EmptyScope,
     block |-> [k \in Keys |->
                  IF wl.tx[k].tag # "none" THEN wl.tx[k] ELSE wl.block[k]]]
\* write_log.drop_tx(): the transaction scope is discarded.
drop_tx(wl) == [wl EXCEPT !.tx = EmptyScope]
\* write_log.commit_block(storage): every block-scope entry is written to
\* (or deleted from) storage, and the block scope is cleared.
commit_block(wl, st) ==
    [wl |-> [wl EXCEPT !.block = EmptyScope],
     st |-> [st EXCEPT !.store =
               [k \in Keys |->
                  IF wl.block[k].tag = "none" THEN st.store[k]
                  ELSE IF wl.block[k].tag = "del" THEN NoEntry
                  ELSE wl.block[k]]]]

(* ----------------------------- transactions ---------------------------- *)
\* Transaction bytes.  `wire` says whether Tx::decode succeeds; a decoded
\* transaction is a program (write / delete / transfer) with its data, and
\* `vp` is what the validity predicates it triggers do with it: accept,
\* reject, or fail to run.
Undecodable ==
    [wire |-> "garbage", kind |-> "none", key |-> validity_predicate("A"),
     val |-> 0, src |-> "A", dst |-> "A", amount |-> 0, vp |-> "accept"]
VpOutcomes == {"accept", "reject", "error"}
WriteKeys == {validity_predicate("A")}
WriteTxs ==
    {[wire |-> "ok", kind |-> "write", key |-> k, val |-> 2, src |-> "A",
      dst |-> "A", amount |-> 0, vp |-> o] :
         k \in WriteKeys, o \in {"accept", "reject"}}
DeleteTxs ==
    {[wire |-> "ok", kind |-> "delete", key |-> k, val |-> 0, src |-> "A",
      dst |-> "A", amount |-> 0, vp |-> "accept"] : k \in WriteKeys}
TransferTx(s, d, n, o) ==
    [wire |-> "ok", kind |-> "transfer", key |-> balance_key("XAN", s),
     val |-> 0, src |-> s, dst |-> d, amount |-> n, vp |-> o]
TransferTxs == {TransferTx("A", "B", 10, o) : o \in {"accept", "error"}}
TxBytes == {Undecodable} \cup WriteTxs \cup DeleteTxs \cup TransferTxs

\* Tx::decode(tx_bytes)
Tx_decode(tx_bytes) == [ok |-> tx_bytes.wire = "ok", tx |-> tx_bytes]

(* ------------------- transaction application pipeline ------------------ *)
\* The transaction's program: the writes it stages, computed from what it
\* reads through the write log.  A transfer fails to run when the source
\* balance is missing, undecodable or too small.
tx_program(tx, wl, st) ==
    CASE tx.kind = "write" ->
           [ok |-> TRUE, ops |-> <<[key |-> tx.key, entry |-> Raw(tx.val)]>>]
      [] tx.kind = "delete" ->
           [ok |-> TRUE, ops |-> <<[key |-> tx.key, entry |-> Del]>>]
      [] OTHER ->
           LET transfer(sk, dk, sb, db) ==
                 IF sb.ok /\ sb.amount >= tx.amount
                 THEN [ok |-> TRUE,
                       ops |-> <<[key |-> sk,
                                  entry |-> try_to_vec(sb.amount - tx.amount)],
                                 [key |-> dk,
                                  entry |-> try_to_vec(db.amount + tx.amount)]>>]
                 ELSE [ok |-> FALSE, ops |-> <<>>]
           IN transfer(balance_key("XAN", tx.src), balance_key("XAN", tx.dst),
                       try_from_slice(
                          wl_read(wl, st, balance_key("XAN", tx.src))),
                       try_from_slice(
                          wl_read(wl, st, balance_key("XAN", tx.dst))))

\* Staging the program's writes one by one, each charged before it is staged;
\* a failed charge abandons the rest and leaves what is already staged.
RECURSIVE run_ops(_, _, _)
run_ops(ops, gm, wl) ==
    LET charged(a) ==
          IF ~a.ok THEN [ok |-> FALSE, gm |-> a.gm, wl |-> wl]
          ELSE run_ops(Tail(ops), a.gm,
                       wl_stage(wl, Head(ops).key, Head(ops).entry))
    IN IF ops = <<>> THEN [ok |-> TRUE, gm |-> gm, wl |-> wl]
       ELSE charged(gas_add(gm, WriteGas))

PipelineErr(err, gm, wl) ==
    [ok |-> FALSE, err |-> err, gas_used |-> 0, rejected |-> {},
     gm |-> gm, wl |-> wl]

\* protocol::apply_tx(tx_bytes, gas_meter, write_log, storage): with the
\* per-transaction gas counter started afresh, decode (a failure charges
\* and stages nothing), run the program against the write log and the meter,
\* evaluate the validity predicates, return the TxResult (gas used and
\* rejection set) or an error.
protocol_apply_tx(tx_bytes, gm, wl, st) ==
    LET verdict(tx, v, wl2) ==
          IF ~v.ok THEN PipelineErr("gas", v.gm, wl2)
          ELSE IF tx.vp = "error" THEN PipelineErr("vp", v.gm, wl2)
          ELSE [ok |-> TRUE, err |-> "",
                gas_used |-> get_current_transaction_gas(v.gm),
                rejected |-> IF tx.vp = "reject" THEN {tx.src} ELSE {},
                gm |-> v.gm, wl |-> wl2]
        predicates(tx, r) ==
          IF ~r.ok THEN PipelineErr("gas", r.gm, r.wl)
          ELSE verdict(tx, gas_add(r.gm, VpGas), r.wl)
        execute(tx, prog, g0) ==
          IF ~prog.ok THEN PipelineErr("tx", g0, wl)
          ELSE predicates(tx, run_ops(prog.ops, g0, wl))
        decoded(d, g0) ==
          IF ~d.ok THEN PipelineErr("decode", g0, wl)
          ELSE execute(d.tx, tx_program(d.tx, wl, st), g0)
    IN decoded(Tx_decode(tx_bytes), gas_start_tx(gm))

\* TxResult::is_accepted()
is_accepted(result) == result.rejected = {}
\* TxResult's Display, as used for the dry-run reply.
result_to_string(result) ==
    [gas_used |-> result.gas_used, rejected |-> result.rejected]

(* ------------------------------ the Shell ------------------------------ *)
\* Shell::new: a fresh in-memory storage seeded with the token VPs, and for
\* each user its VP and its genesis balances.
GenesisBalance(token) == IF token = "XAN" THEN XanGenesis ELSE BtcGenesis
GenesisStore ==
    [k \in Keys |->
       IF k[1] = "vp" THEN user_vp ELSE try_to_vec(GenesisBalance(k[2]))]
Shell_new_storage == [storage_new EXCEPT !.store = GenesisStore]

\* apply_tx with the rejection test left out: every verdict is committed.
apply_tx_commits_rejected(tx_bytes, gm, wl, st) ==
    LET reply(result) ==
          IF result.ok
          THEN [gas |-> as_i64(result.gas_used), ok |-> TRUE, err |-> "",
                rejected |-> result.rejected, gas_meter |-> result.gm,
                write_log |-> commit_tx(result.wl)]
          ELSE [gas |-> as_i64(get_current_transaction_gas(result.gm)),
                ok |-> FALSE, err |-> result.err, rejected |-> {},
                gas_meter |-> result.gm, write_log |-> result.wl]
    IN reply(protocol_apply_tx(tx_bytes, gm, wl, st))
\* apply_tx returning the block-level counter for the transaction's gas.
apply_tx_reports_block_gas(tx_bytes, gm, wl, st) ==
    LET reply(result) ==
          IF result.ok
          THEN [gas |-> as_i64(result.gm.block_gas), ok |-> TRUE, err |-> "",
                rejected |-> result.rejected, gas_meter |-> result.gm,
                write_log |-> IF is_accepted(result) THEN commit_tx(result.wl)
                              ELSE drop_tx(result.wl)]
          ELSE [gas |-> as_i64(result.gm.block_gas),
                ok |-> FALSE, err |-> result.err, rejected |-> {},
                gas_meter |-> result.gm, write_log |-> result.wl]
    IN reply(protocol_apply_tx(tx_bytes, gm, wl, st))
\* apply_tx merging an accepted transaction's writes under the block scope:
\* the entry of an earlier transaction of the block stays.
apply_tx_keeps_earlier_entry(tx_bytes, gm, wl, st) ==
    LET reply(result) ==
          IF result.ok
          THEN [gas |-> as_i64(result.gas_used), ok |-> TRUE, err |-> "",
                rejected |-> result.rejected, gas_meter |-> result.gm,
                write_log |->
                   IF is_accepted(result)
                   THEN [tx |-> EmptyScope,
                         block |-> [k \in Keys |->
                                      IF result.wl.block[k].tag # "none"
                                      THEN result.wl.block[k]
                                      ELSE result.wl.tx[k]]]
                   ELSE drop_tx(result.wl)]
          ELSE [gas |-> as_i64(get_current_transaction_gas(result.gm)),
                ok |-> FALSE, err |-> result.err, rejected |-> {},
                gas_meter |-> result.gm, write_log |-> result.wl]
    IN reply(protocol_apply_tx(tx_bytes, gm, wl, st))
\* apply_tx starting the write log afresh on a pipeline error.
apply_tx_clears_log_on_error(tx_bytes, gm, wl, st) ==
    LET reply(result) ==
          IF result.ok
          THEN [gas |-> as_i64(result.gas_used), ok |-> TRUE, err |-> "",
                rejected |-> result.rejected, gas_meter |-> result.gm,
                write_log |-> IF is_accepted(result) THEN commit_tx(result.wl)
                              ELSE drop_tx(result.wl)]
          ELSE [gas |-> as_i64(get_current_transaction_gas(result.gm)),
                ok |-> FALSE, err |-> result.err, rejected |-> {},
                gas_meter |-> result.gm, write_log |-> write_log_new]
    IN reply(protocol_apply_tx(tx_bytes, gm, wl, st))
\* apply_tx returning no gas with a pipeline error.
apply_tx_reports_no_gas_on_error(tx_bytes, gm, wl, st) ==
    LET reply(result) ==
          IF result.ok
          THEN [gas |-> as_i64(result.gas_used), ok |-> TRUE, err |-> "",
                rejected |-> result.rejected, gas_meter |-> result.gm,
                write_log |-> IF is_accepted(result) THEN commit_tx(result.wl)
                              ELSE drop_tx(result.wl)]
          ELSE [gas |-> as_i64(0), ok |-> FALSE, err |-> result.err,
                rejected |-> {},
                gas_meter |-> result.gm, write_log |-> result.wl]
    IN reply(protocol_apply_tx(tx_bytes, gm, wl, st))
\* apply_tx reporting a pipeline error as an accepted transaction.
apply_tx_hides_error(tx_bytes, gm, wl, st) ==
    LET reply(result) ==
          IF result.ok
          THEN [gas |-> as_i64(result.gas_used), ok |-> TRUE, err |-> "",
                rejected |-> result.rejected, gas_meter |-> result.gm,
                write_log |-> IF is_accepted(result) THEN commit_tx(result.wl)
                              ELSE drop_tx(result.wl)]
          ELSE [gas |-> as_i64(get_current_transaction_gas(result.gm)),
                ok |-> TRUE, err |-> "", rejected |-> {},
                gas_meter |-> result.gm, write_log |-> result.wl]
    IN reply(protocol_apply_tx(tx_bytes, gm, wl, st))
\* Shell::apply_tx
apply_tx(tx_bytes, gm, wl, st) ==
    LET reply(result) ==
          IF result.ok
          THEN [gas |-> as_i64(result.gas_used), ok |-> TRUE, err |-> "",
                rejected |-> result.rejected, gas_meter |-> result.gm,
                write_log |-> IF is_accepted(result) THEN commit_tx(result.wl)
                              ELSE drop_tx(result.wl)]
          ELSE [gas |-> as_i64(get_current_transaction_gas(result.gm)),
                ok |-> FALSE, err |-> result.err, rejected |-> {},
                gas_meter |-> result.gm, write_log |-> result.wl]
    IN reply(protocol_apply_tx(tx_bytes, gm, wl, st))

\* dry_run_tx handing the Shell's own meter and write log to the pipeline.
dry_run_tx_unisolated(tx_bytes, gm, wl, st) ==
    LET reply(result) ==
          [ok |-> result.ok, err |-> result.err,
           out |-> result_to_string(result),
           gas_meter |-> result.gm, write_log |-> result.wl]
    IN reply(protocol_apply_tx(tx_bytes, gm, wl, st))
\* dry_run_tx running the pipeline on a new write log instead of a clone.
dry_run_tx_on_new_log(tx_bytes, gm, wl, st) ==
    LET reply(result) ==
          [ok |-> result.ok, err |-> result.err,
           out |-> result_to_string(result),
           gas_meter |-> gm, write_log |-> wl]
    IN reply(protocol_apply_tx(tx_bytes, gas_default, write_log_new, st))
\* dry_run_tx zeroing the Shell's meter for the run.
dry_run_tx_resets_meter(tx_bytes, gm, wl, st) ==
    LET reply(result) ==
          [ok |-> result.ok, err |-> result.err,
           out |-> result_to_string(result),
           gas_meter |-> gas_reset(gm), write_log |-> wl]
    IN reply(protocol_apply_tx(tx_bytes, gas_default, wl, st))
\* dry_run_tx running the pipeline on the Shell's own meter.
dry_run_tx_on_own_meter(tx_bytes, gm, wl, st) ==
    LET reply(result) ==
          [ok |-> result.ok, err |-> result.err,
           out |-> result_to_string(result),
           gas_meter |-> result.gm, write_log |-> wl]
    IN reply(protocol_apply_tx(tx_bytes, gm, wl, st))
\* Shell::dry_run_tx: the pipeline on a fresh meter and a clone of the write
\* log; the Shell's own meter and write log are what they were.
dry_run_tx(tx_bytes, gm, wl, st) ==
    LET reply(result) ==
          [ok |-> result.ok, err |-> result.err,
           out |-> result_to_string(result),
           gas_meter |-> gm, write_log |-> wl]
    IN reply(protocol_apply_tx(tx_bytes, gas_default, wl, st))

\* begin_block with the result of storage.begin_block ignored instead of
\* unwrapped.
begin_block_unchecked(hash, height, gm, st) ==
    [panic |-> FALSE, gas_meter |-> gas_reset(gm),
     storage |-> storage_begin_block(st, hash, height).st]
\* Shell::begin_block: the height-6 user VP patch, the meter reset, then
\* storage.begin_block(..).unwrap().
begin_block(hash, height, gm, st) ==
    LET patched == IF height = PatchHeight
                   THEN [st EXCEPT !.store =
                           [k \in Keys |-> IF k[1] = "vp" THEN user_vp
                                           ELSE st.store[k]]]
                   ELSE st
        b == storage_begin_block(patched, hash, height)
    IN [panic |-> ~b.ok, gas_meter |-> gas_reset(gm), storage |-> b.st]

\* end_block that zeroes the gas meter of the block that ends.
end_block_resets_meter(height, gm, wl, st) ==
    [gas_meter |-> gas_reset(gm), write_log |-> wl, storage |-> st]
\* Shell::end_block: an empty body.
end_block(height, gm, wl, st) ==
    [gas_meter |-> gm, write_log |-> wl, storage |-> st]

\* commit that takes the Merkle root before the flush of the block scope.
commit_root_before_flush(wl, st, db, io_ok) ==
    LET flushed == commit_block(wl, st)
        c == storage_commit(flushed.st, db, io_ok)
    IN [root |-> merkle_root(st), write_log |-> flushed.wl,
        storage |-> c.st, disk |-> c.db]
\* commit without the flush of the block scope.
commit_unflushed(wl, st, db, io_ok) ==
    LET c == storage_commit(st, db, io_ok)
    IN [root |-> merkle_root(c.st),
        write_log |-> [wl EXCEPT !.block = EmptyScope],
        storage |-> c.st, disk |-> c.db]
\* Shell::commit: flush the block scope, persist (an error is only logged),
\* return the Merkle root.
commit(wl, st, db, io_ok) ==
    LET flushed == commit_block(wl, st)
        c == storage_commit(flushed.st, db, io_ok)
    IN [root |-> merkle_root(c.st), write_log |-> flushed.wl,
        storage |-> c.st, disk |-> c.db]

\* last_state replying the state storage holds in memory when the load
\* fails.
last_state_replies_memory(st, db, io_ok) ==
    LET r == storage_load_last_state_result(st, db, io_ok)
    IN IF r.ok
       THEN [some |-> r.some, root |-> r.root, height |-> r.height,
             storage |-> r.st]
       ELSE [some |-> st.height > 0, root |-> merkle_root(st),
             height |-> st.height, storage |-> r.st]
\* Shell::last_state: load_last_state().unwrap_or_else(|e| { log; None }).
last_state(st, db, io_ok) ==
    LET r == storage_load_last_state_result(st, db, io_ok)
    IN IF r.ok
       THEN [some |-> r.some, root |-> r.root, height |-> r.height,
             storage |-> r.st]
       ELSE [some |-> FALSE, root |-> EmptyScope, height |-> 0,
             storage |-> r.st]

\* Address::decode: "A", "B" and "Z" are well-formed addresses ("Z" has no
\* account); anything else fails to decode.
Address_decode(addr) == [ok |-> addr \in Users \cup {"Z"}, user |-> addr]
QueryAddrs == {"A", "B", "?"}

\* Shell::find_balances: for each token in order, the balance that is read
\* (`if let Ok((Some(b), _))`), is stored and decodes is put in front of the
\* result built so far; io_ok = FALSE is a storage whose reads fail.
RECURSIVE balances_from(_, _, _, _, _)
balances_from(i, user, st, result, io_ok) ==
    IF i > Len(Tokens) THEN result
    ELSE LET b == storage_read_result(st, balance_key(Tokens[i], user), io_ok)
             a == try_from_slice(b.entry)
         IN balances_from(i + 1, user, st,
               IF b.ok /\ b.entry.tag # "none" /\ a.ok
               THEN <<[name |-> Tokens[i], amount |-> a.amount]>> \o result
               ELSE result, io_ok)
find_balances(addr, st, io_ok) ==
    LET user == Address_decode(addr)
    IN IF ~user.ok THEN [ok |-> FALSE, out |-> <<>>]
       ELSE [ok |-> TRUE,
             out |-> balances_from(1, user.user, st, <<>>, io_ok)]

\* init_chain with the result of storage.set_chain_id dropped.
init_chain_ignores_refusal(chain_id, st) ==
    LET r == storage_set_chain_id(st, chain_id)
    IN [ok |-> TRUE, storage |-> r.st]
\* init_chain storing the id whatever storage holds already.
init_chain_overwrites(chain_id, st) ==
    [ok |-> TRUE, storage |-> [st EXCEPT !.chain_id = chain_id]]
\* Shell::init_chain
init_chain(chain_id, st) ==
    LET r == storage_set_chain_id(st, chain_id)
    IN [ok |-> r.ok, storage |-> r.st]

\* mempool_validate that validates whatever it is given.
mempool_validate_accepts_all(tx_bytes, type) == [ok |-> TRUE]
\* mempool_validate that takes a recheck as validated already.
mempool_validate_recheck_skips(tx_bytes, type) ==
    [ok |-> type = "RecheckTransaction" \/ Tx_decode(tx_bytes).ok]
\* Shell::mempool_validate
mempool_validate(tx_bytes, type) == [ok |-> Tx_decode(tx_bytes).ok]

\* The AbciQuery arm reading the balances through the block scope of the
\* write log.
abci_query_balances_in_block(path, data, gm, wl, st, io_ok) ==
    LET dry_run(r) ==
          [sent |-> TRUE,
           reply |-> [ok |-> r.ok, err |-> r.err, out |-> r.out],
           gas_meter |-> r.gas_meter, write_log |-> r.write_log]
    IN IF path = "dry_run_tx" THEN dry_run(dry_run_tx(data, gm, wl, st))
       ELSE IF path = "balances"
       THEN [sent |-> TRUE,
             reply |-> find_balances(data, commit_block(wl, st).st, io_ok),
             gas_meter |-> gm, write_log |-> wl]
       ELSE [sent |-> FALSE, reply |-> [none |-> TRUE],
             gas_meter |-> gm, write_log |-> wl]
\* The AbciQuery arm with a final `else` that answers an unknown path with
\* an error.
abci_query_answers_unknown(path, data, gm, wl, st, io_ok) ==
    LET dry_run(r) ==
          [sent |-> TRUE,
           reply |-> [ok |-> r.ok, err |-> r.err, out |-> r.out],
           gas_meter |-> r.gas_meter, write_log |-> r.write_log]
    IN IF path = "dry_run_tx" THEN dry_run(dry_run_tx(data, gm, wl, st))
       ELSE IF path = "balances"
       THEN [sent |-> TRUE, reply |-> find_balances(data, st, io_ok),
             gas_meter |-> gm, write_log |-> wl]
       ELSE [sent |-> TRUE, reply |-> [ok |-> FALSE, out |-> <<>>],
             gas_meter |-> gm, write_log |-> wl]
\* The AbciQuery arm charging the gas of the balance reads to the meter.
abci_query_charging(path, data, gm, wl, st, io_ok) ==
    LET dry_run(r) ==
          [sent |-> TRUE,
           reply |-> [ok |-> r.ok, err |-> r.err, out |-> r.out],
           gas_meter |-> r.gas_meter, write_log |-> r.write_log]
    IN IF path = "dry_run_tx" THEN dry_run(dry_run_tx(data, gm, wl, st))
       ELSE IF path = "balances"
       THEN [sent |-> TRUE, reply |-> find_balances(data, st, io_ok),
             gas_meter |-> gas_add(gm, 1).gm, write_log |-> wl]
       ELSE [sent |-> FALSE, reply |-> [none |-> TRUE],
             gas_meter |-> gm, write_log |-> wl]
\* Shell::run, the AbciMsg::AbciQuery arm: "dry_run_tx" and "balances" are
\* answered, any other path gets no reply; the Shell's meter and write log
\* after it.
abci_query(path, data, gm, wl, st, io_ok) ==
    LET dry_run(r) ==
          [sent |-> TRUE,
           reply |-> [ok |-> r.ok, err |-> r.err, out |-> r.out],
           gas_meter |-> r.gas_meter, write_log |-> r.write_log]
    IN IF path = "dry_run_tx" THEN dry_run(dry_run_tx(data, gm, wl, st))
       ELSE IF path = "balances"
       THEN [sent |-> TRUE, reply |-> find_balances(data, st, io_ok),
             gas_meter |-> gm, write_log |-> wl]
       ELSE [sent |-> FALSE, reply |-> [none |-> TRUE],
             gas_meter |-> gm, write_log |-> wl]

(* ------------------------------- state --------------------------------- *)
VARIABLES
    running,    \* the Shell's run loop is alive (FALSE once the process has
                \* died: a panic, a fatal error, a reset of a stopped node)
    storage,    \* Shell.storage, the in-memory side of PersistentStorage
    gas_meter,  \* Shell.gas_meter
    write_log,  \* Shell.write_log: transaction scope and block scope
    disk,       \* the DB directory PersistentStorage persists to
    last,       \* the message handled last and the reply sent for it
    hist        \* history of the run, read by the properties only

vars == <<running, storage, gas_meter, write_log, disk, last, hist>>
memory == <<storage, gas_meter, write_log>>

\* The chain id of the engine's genesis, and a different one.
GenesisChainId == "c1"
ChainIds == {GenesisChainId, "c2"}
HeightInputs == (0..MaxHeight) \cup {PatchHeight}
\* The consensus engine's hash of the block at a height.
BlockHashOf(height) == IF height % 2 = 1 THEN "H1" ELSE "H2"
Paths == {"dry_run_tx", "balances", "other"}
MempoolTxTypes == {"NewTransaction", "RecheckTransaction"}

Stamp(kind, arg, sent, reply) ==
    [kind |-> kind, arg |-> arg, sent |-> sent, reply |-> reply]
NoReply == [none |-> TRUE]

NoCommit == [some |-> FALSE, root |-> EmptyScope, height |-> 0]
\* The twin Shell as Shell::new leaves it, and once it has stopped.
TwinNew ==
    [alive |-> TRUE, storage |-> Shell_new_storage, gas_meter |-> gas_default,
     write_log |-> write_log_new, same |-> TRUE]
TwinDead ==
    [alive |-> FALSE, storage |-> storage_new, gas_meter |-> gas_default,
     write_log |-> write_log_new, same |-> TRUE]
\* hist.phase: where the consensus engine is in its protocol with this
\*   process: "boot" (started, handshake GetInfo not yet done), "idle"
\*   (between blocks), "open" (BeginBlock done), "ended" (EndBlock done),
\*   "dead" (no process);
\* hist.blocks: the CommitBlock messages the Shell has handled;
\* hist.gas_sum: the sum of the gas values ApplyTx returned in the open block;
\* hist.commit: what the last CommitBlock since the DB was created replied,
\*   with the height of the block it committed; hist.wiped: a DB holding
\*   a persisted block was reset;
\* hist.accepted: the writes of the transactions accepted since the last
\*   BeginBlock or CommitBlock, later over earlier; hist.committed: the writes of the
\*   accepted transactions of the blocks CommitBlock has replied for since
\*   the DB was created, later over earlier;
\* hist.failed: 1 once an ApplyTx since the last BeginBlock was rejected by
\*   a validity predicate, 2 once an ApplyTx after that one was accepted, 0
\*   before;
\* hist.shadowed: an accepted ApplyTx since the last BeginBlock has put a
\*   different entry over the entry of an earlier accepted one;
\* hist.twin: a second Shell, started when this one was and on an equal DB,
\*   that is sent the same GetInfo, InitChain, BeginBlock, ApplyTx, EndBlock
\*   and CommitBlock messages and none of the MempoolValidate and AbciQuery
\*   messages: whether it runs, its memory, and whether each of its replies
\*   since it started was the reply this Shell sent;
\* hist.e2e: progress through InitChain, BeginBlock(H1, 1), ApplyTx(transfer
\*   of 10 from A to B, accepted), EndBlock(1), CommitBlock from a fresh
\*   Shell (0..5), or -1 once the run has left that sequence.
HistInit ==
    [phase |-> "boot", blocks |-> 0, gas_sum |-> 0, commit |-> NoCommit,
     wiped |-> FALSE, accepted |-> EmptyScope, committed |-> EmptyScope,
     failed |-> 0, shadowed |-> FALSE, twin |-> TwinNew, e2e |-> 0]

\* The writes a decoded transaction stages when it runs to its end, and
\* an overlay with a sequence of writes put over it (later over earlier).
TxWrites(tx, wl, st) == tx_program(tx, wl, st).ops
Overlay(ops, base) ==
    [k \in Keys |->
       LET hits == {i \in 1..Len(ops) : ops[i].key = k}
       IN IF hits = {} THEN base[k]
          ELSE ops[CHOOSE i \in hits : \A j \in hits : j <= i].entry]

TheTransfer == TransferTx("A", "B", 10, "accept")
e2e_step(e, want, matches) == IF e = want /\ matches THEN want + 1 ELSE -1

Init ==
    /\ running = TRUE
    /\ storage = Shell_new_storage
    /\ gas_meter = gas_default
    /\ write_log = write_log_new
    /\ disk = EmptyDB
    /\ last = Stamp("Start", <<>>, FALSE, NoReply)
    /\ hist = HistInit

\* A Shell started on the DB of a chain that has run up to the block before
\* the patch height, in which user A has replaced its validity predicate.
AgedDB ==
    [exists |-> TRUE, has_block |-> TRUE,
     store |-> [GenesisStore EXCEPT ![validity_predicate("A")] = other_vp],
     chain_id |-> GenesisChainId,
     height |-> PatchHeight - 1, hash |-> BlockHashOf(PatchHeight - 1)]
InitAged ==
    /\ running = TRUE
    /\ storage = Shell_new_storage
    /\ gas_meter = gas_default
    /\ write_log = write_log_new
    /\ disk = AgedDB
    /\ last = Stamp("Start", <<>>, FALSE, NoReply)
    /\ hist = [HistInit EXCEPT
                 !.commit = [some |-> TRUE, root |-> AgedDB.store,
                             height |-> AgedDB.height],
                 !.e2e = -1]

\* The process has died: its memory is gone.
Dead ==
    /\ running' = FALSE
    /\ storage' = storage_new
    /\ gas_meter' = gas_default
    /\ write_log' = write_log_new

(* ------------------------- the message handlers ------------------------ *)
\* AbciMsg::GetInfo; io_ok says whether storage can load its last state.
HandleGetInfo(io_ok) ==
    /\ LET r == last_state(storage, disk, io_ok)
       IN /\ storage' = r.storage
          /\ last' = Stamp("GetInfo", [io |-> io_ok], TRUE,
                           [some |-> r.some, root |-> r.root,
                            height |-> r.height])
    /\ LET twin(t, r) ==
             hist' = [hist EXCEPT
                        !.phase = IF @ = "boot" THEN "idle" ELSE @,
                        !.twin = [t EXCEPT
                                    !.storage = r.storage,
                                    !.same = @ /\ last'.reply =
                                                 [some |-> r.some,
                                                  root |-> r.root,
                                                  height |-> r.height]],
                        !.e2e = IF @ = 0 THEN 0 ELSE -1]
       IN twin(hist.twin, last_state(hist.twin.storage, disk, io_ok))
    /\ UNCHANGED <<running, gas_meter, write_log, disk>>

\* GetInfo on a storage that can load its last state.
GetInfo == running /\ HandleGetInfo(TRUE)
\* GetInfo on a storage whose load of the last state fails.
GetInfoLoadFails == running /\ HandleGetInfo(FALSE)

\* AbciMsg::InitChain: a storage error ends run() before the reply.  The
\* consensus engine sends it at genesis only, before the first block, and
\* sends no block before it.
InitChain(chain_id) ==
    /\ running
    /\ hist.phase = "idle"
    /\ storage.next_height = 0
    /\ storage.chain_id = NoChain => chain_id = GenesisChainId
    /\ LET r == init_chain(chain_id, storage)
       IN /\ IF r.ok
             THEN /\ storage' = r.storage
                  /\ UNCHANGED <<running, gas_meter, write_log>>
             ELSE Dead
          /\ last' = Stamp("InitChain", chain_id, r.ok, NoReply)
          /\ LET twin(t, r2) ==
                   hist' = [hist EXCEPT
                              !.e2e = e2e_step(@, 0, r.ok),
                              !.phase = IF r.ok THEN @ ELSE "dead",
                              !.twin = IF r2.ok
                                       THEN [t EXCEPT !.storage = r2.storage,
                                                      !.same = @ /\ r.ok]
                                       ELSE TwinDead]
             IN twin(hist.twin, init_chain(chain_id, hist.twin.storage))
    /\ UNCHANGED disk

\* AbciMsg::MempoolValidate
MempoolValidate(tx, type) ==
    /\ running
    /\ last' = Stamp("MempoolValidate", [wire |-> tx.wire, type |-> type],
                     TRUE, mempool_validate(tx, type))
    /\ UNCHANGED <<running, storage, gas_meter, write_log, disk, hist>>

\* AbciMsg::BeginBlock: the unwrap() of a refused storage.begin_block panics.
\* The consensus engine sends BeginBlock, ApplyTx*, EndBlock, CommitBlock in
\* this order for each block; a BeginBlock that storage accepts is explored
\* for MaxHeight blocks, one that it refuses always.
BeginBlock(hash, height) ==
    /\ running
    /\ hist.phase = "idle"
    /\ hist.blocks < MaxHeight \/ height # storage.height + 1
    /\ storage.chain_id # NoChain
    /\ LET r == begin_block(hash, height, gas_meter, storage)
       IN /\ IF r.panic
             THEN Dead
             ELSE /\ gas_meter' = r.gas_meter
                  /\ storage' = r.storage
                  /\ UNCHANGED <<running, write_log>>
          /\ last' = Stamp("BeginBlock", [hash |-> hash, height |-> height],
                           ~r.panic, NoReply)
          /\ LET twin(t, r2) ==
                   IF r2.panic THEN TwinDead
                   ELSE [t EXCEPT !.gas_meter = r2.gas_meter,
                                  !.storage = r2.storage,
                                  !.same = @ /\ ~r.panic]
             IN hist' = [hist EXCEPT
                        !.phase = IF r.panic THEN "dead" ELSE "open",
                        !.twin = twin(@, begin_block(hash, height,
                                                     @.gas_meter, @.storage)),
                        !.accepted = EmptyScope,
                        !.failed = 0, !.shadowed = FALSE,
                        !.e2e = e2e_step(@, 1, ~r.panic /\ hash = "H1"
                                                /\ height = 1)]
    /\ UNCHANGED disk

\* AbciMsg::ApplyTx: the handler, which asks nothing of the block lifecycle.
HandleApplyTx(tx) ==
    /\ running
    /\ gas_meter.block_gas < MaxGas
    /\ LET twin(t, r2) ==
             [t EXCEPT !.gas_meter = r2.gas_meter,
                       !.write_log = r2.write_log,
                       !.same = @ /\ last'.reply =
                                    [gas |-> r2.gas, ok |-> r2.ok,
                                     err |-> r2.err,
                                     rejected |-> r2.rejected]]
           handled(r, acc) ==
             /\ gas_meter' = r.gas_meter
             /\ write_log' = r.write_log
             /\ last' = Stamp("ApplyTx", tx, TRUE,
                              [gas |-> r.gas, ok |-> r.ok, err |-> r.err,
                               rejected |-> r.rejected])
             /\ hist' = [hist EXCEPT
                           !.gas_sum = @ + r.gas,
                           !.twin = twin(@, apply_tx(tx, @.gas_meter,
                                                     @.write_log, @.storage)),
                           !.accepted = IF acc
                                        THEN Overlay(TxWrites(tx, write_log,
                                                              storage), @)
                                        ELSE @,
                           !.failed = IF r.ok /\ r.rejected # {}
                                      THEN IF @ = 0 THEN 1 ELSE @
                                      ELSE IF acc /\ @ = 1 THEN 2 ELSE @,
                           !.shadowed =
                              \/ @
                              \/ /\ acc
                                 /\ \E k \in Keys :
                                       /\ hist.accepted[k].tag # "none"
                                       /\ Overlay(TxWrites(tx, write_log,
                                                           storage),
                                                  hist.accepted)[k]
                                             # hist.accepted[k],
                           !.e2e = e2e_step(@, 2, acc /\ tx = TheTransfer)]
           accepted(r) == handled(r, r.ok /\ r.rejected = {})
       IN accepted(apply_tx(tx, gas_meter, write_log, storage))
    /\ UNCHANGED <<running, storage, disk>>

\* ApplyTx as the consensus engine sends it: inside a block.
ApplyTx(tx) == hist.phase = "open" /\ HandleApplyTx(tx)
\* ApplyTx from a sender that does not keep to the block lifecycle: between
\* blocks.
StrayApplyTx(tx) == hist.phase = "idle" /\ HandleApplyTx(tx)

\* AbciMsg::EndBlock (Shell::end_block does nothing)
EndBlock(height) ==
    /\ running
    /\ hist.phase = "open"
    /\ LET r == end_block(height, gas_meter, write_log, storage)
       IN /\ gas_meter' = r.gas_meter
          /\ write_log' = r.write_log
          /\ storage' = r.storage
    /\ last' = Stamp("EndBlock", height, TRUE, NoReply)
    /\ LET twin(t, r2) ==
             [t EXCEPT !.gas_meter = r2.gas_meter,
                       !.write_log = r2.write_log,
                       !.storage = r2.storage]
       IN hist' = [hist EXCEPT
                     !.phase = "ended",
                     !.twin = twin(@, end_block(height, @.gas_meter,
                                                @.write_log, @.storage)),
                     !.e2e = e2e_step(@, 3, height = 1)]
    /\ UNCHANGED <<running, disk>>

\* AbciMsg::CommitBlock; io_ok = FALSE is a storage.commit() that fails.
CommitBlock(io_ok) ==
    /\ running
    /\ hist.phase = "ended"
    /\ LET r == commit(write_log, storage, disk, io_ok)
       IN /\ write_log' = r.write_log
          /\ storage' = r.storage
          /\ disk' = r.disk
          /\ last' = Stamp("CommitBlock", io_ok, TRUE, [root |-> r.root])
          /\ LET twin(t, r2) ==
                   [t EXCEPT !.write_log = r2.write_log,
                             !.storage = r2.storage,
                             !.same = @ /\ last'.reply = [root |-> r2.root]
                                        /\ disk' = r2.disk]
             IN hist' = [hist EXCEPT
                        !.phase = "idle", !.gas_sum = 0,
                        !.twin = twin(@, commit(@.write_log, @.storage, disk,
                                                io_ok)),
                        !.blocks = @ + 1,
                        !.commit = [some |-> TRUE, root |-> r.root,
                                    height |-> storage.next_height],
                        !.accepted = EmptyScope,
                        !.committed = [k \in Keys |->
                                         IF hist.accepted[k].tag # "none"
                                         THEN hist.accepted[k] ELSE @[k]],
                        !.e2e = e2e_step(@, 4, TRUE)]
    /\ UNCHANGED <<running, gas_meter>>

\* AbciMsg::AbciQuery: "dry_run_tx", "balances", and no reply otherwise;
\* io_ok says whether the reads of storage made for it succeed.
HandleAbciQuery(path, data, io_ok) ==
    /\ LET handled(r) ==
             /\ gas_meter' = r.gas_meter
             /\ write_log' = r.write_log
             /\ last' = Stamp("AbciQuery",
                              [path |-> path, data |-> data, io |-> io_ok],
                              r.sent, r.reply)
       IN handled(abci_query(path, data, gas_meter, write_log, storage,
                             io_ok))
    /\ UNCHANGED <<running, storage, disk, hist>>

\* AbciQuery on a storage that can be read.
AbciQuery(path, data) == running /\ HandleAbciQuery(path, data, TRUE)
\* A balances query on a storage whose reads fail.
AbciQueryReadFails(addr) ==
    running /\ HandleAbciQuery("balances", addr, FALSE)

\* A transfer of all that A holds at genesis.
TransferAll == TransferTx("A", "B", XanGenesis, "accept")
DryRunTxs ==
    {Undecodable, TheTransfer, TransferAll}
       \cup {t \in WriteTxs : t.vp = "reject"}
QueryData(path) ==
    IF path = "dry_run_tx" THEN DryRunTxs
    ELSE IF path = "balances" THEN QueryAddrs
    ELSE {"?"}

(* --------------------------- the node process -------------------------- *)
\* run(): the node is (stopped and) started: Shell::new on the DB directory,
\* which is created when missing.
Restart ==
    /\ running' = TRUE
    /\ storage' = Shell_new_storage
    /\ gas_meter' = gas_default
    /\ write_log' = write_log_new
    /\ disk' = IF disk.exists THEN disk ELSE EmptyDB
    /\ last' = Stamp("Start", <<>>, FALSE, NoReply)
    /\ hist' = [hist EXCEPT !.phase = "boot", !.gas_sum = 0,
                            !.twin = TwinNew,
                            !.accepted = EmptyScope, !.failed = 0, !.shadowed = FALSE,
                            !.e2e = -1]

\* reset that reports success and removes nothing.
reset_keeps(db) == [ok |-> TRUE, disk |-> db]
\* reset(): remove_dir_all on the DB directory; NotFound is not an error.
reset(db) == [ok |-> TRUE, disk |-> NoDB]
\* The `reset` command, run on the stopped node.
Reset ==
    /\ Dead
    /\ LET r == reset(disk)
       IN /\ disk' = r.disk
          /\ last' = Stamp("Reset", disk.exists, FALSE, [ok |-> r.ok])
    /\ hist' = [hist EXCEPT !.phase = "dead", !.gas_sum = 0,
                            !.twin = TwinDead,
                            !.accepted = EmptyScope, !.failed = 0, !.shadowed = FALSE,
                            !.e2e = -1,
                            !.commit = NoCommit,
                            !.committed = EmptyScope,
                            !.wiped = disk.has_block \/ @]

(* --------------------------- the ABCI channel -------------------------- *)
\* `.map_err(Error::AbciChannel..Error)?` that lets run() go on.
channel_error_ignored(e) == [terminate |-> FALSE, error |-> e]
\* `.map_err(Error::AbciChannelRecvError)?` and
\* `.map_err(|e| Error::AbciChannelSendError(..))?` in run(): the error is
\* returned from run(), which ends the loop.
channel_error(e) == [terminate |-> TRUE, error |-> e]

\* run() returns r.error: the Shell, which run() owns, is dropped.  `done`
\* is the number of CommitBlock messages handled on the way.
Returned(r, done) ==
    /\ running' = ~r.terminate
    /\ storage' = storage_new
    /\ gas_meter' = gas_default
    /\ write_log' = write_log_new
    /\ hist' = [hist EXCEPT !.phase = "dead", !.gas_sum = 0,
                            !.twin = TwinDead,
                            !.accepted = EmptyScope, !.failed = 0, !.shadowed = FALSE,
                            !.e2e = -1,
                            !.blocks = @ + done]

\* self.abci.recv() fails: every sender of the channel is gone.
RecvFails ==
    /\ running
    /\ LET r == channel_error("AbciChannelRecvError")
       IN /\ Returned(r, 0)
          /\ last' = Stamp("RecvError", <<>>, FALSE, [error |-> r.error])
    /\ UNCHANGED disk

\* A message is handled and reply.send(..) fails: the receiver of the reply
\* is gone.  The handler has run: what CommitBlock persisted stays in the
\* DB, what any handler did to the Shell's memory goes with the Shell.
ReplySendFails(kind, io_ok) ==
    /\ running
    /\ kind = "InitChain" => /\ hist.phase = "idle"
                             /\ storage.next_height = 0
                             /\ storage.chain_id = NoChain
    /\ kind = "BeginBlock" => hist.phase = "idle" /\ storage.chain_id # NoChain
    /\ kind \in {"ApplyTx", "EndBlock"} => hist.phase = "open"
    /\ kind = "CommitBlock" => hist.phase = "ended"
    /\ kind # "CommitBlock" => io_ok
    /\ LET r == channel_error("AbciChannelSendError")
       IN /\ Returned(r, IF kind = "CommitBlock" THEN 1 ELSE 0)
          /\ last' = Stamp(kind, <<>>, FALSE, [error |-> r.error])
    /\ disk' = IF kind = "CommitBlock"
               THEN commit(write_log, storage, disk, io_ok).disk
               ELSE disk

Next ==
    \/ GetInfo
    \/ \E id \in ChainIds : InitChain(id)
    \/ \E tx \in {Undecodable, TheTransfer}, type \in MempoolTxTypes :
          MempoolValidate(tx, type)
    \/ \E height \in HeightInputs : BeginBlock(BlockHashOf(height), height)
    \/ \E tx \in TxBytes : ApplyTx(tx)
    \/ \E height \in 1..MaxHeight : EndBlock(height)
    \/ \E io_ok \in BOOLEAN : CommitBlock(io_ok)
    \/ \E path \in Paths : \E data \in QueryData(path) : AbciQuery(path, data)
    \/ Restart
    \/ Reset

Spec == Init /\ [][Next]_vars

\* The Shell started on the DB of a chain that has run for some blocks.
SpecAged == InitAged /\ [][Next]_vars

\* The Shell with a sender that may also send ApplyTx between blocks.
NextStray == Next \/ \E tx \in TxBytes : StrayApplyTx(tx)
SpecStray == Init /\ [][NextStray]_vars

\* The Shell on a channel whose other end may go away.
MessageKinds ==
    {"GetInfo", "InitChain", "MempoolValidate", "BeginBlock", "ApplyTx",
     "EndBlock", "CommitBlock", "AbciQuery"}
NextChannel ==
    \/ Next
    \/ RecvFails
    \/ \E kind \in MessageKinds, io_ok \in BOOLEAN : ReplySendFails(kind, io_ok)
SpecChannel == Init /\ [][NextChannel]_vars

\* The Shell on a storage whose load of the last state may fail.
NextLoadFault == Next \/ GetInfoLoadFails
SpecLoadFault == Init /\ [][NextLoadFault]_vars

\* The Shell on a storage whose reads may fail during a query.
NextReadFault == Next \/ \E addr \in QueryAddrs : AbciQueryReadFails(addr)
SpecReadFault == Init /\ [][NextReadFault]_vars

(* ------------------------------ properties ----------------------------- *)
\* What a read finds for an overlay entry: a deletion marker reads absent.
Visible(e) == IF e.tag = "del" THEN NoEntry ELSE e
LastIsApplyTx == last.kind = "ApplyTx"
LastAccepted == LastIsApplyTx /\ last.reply.ok /\ last.reply.rejected = {}
\* The Shell runs and, if it was restarted, has loaded its state (GetInfo).
Serving == hist.phase \in {"idle", "open", "ended"}

\* C1: every key written by an accepted ApplyTx reads, through the write
\* log, the written value right after ApplyTx returns; and every key written
\* by an accepted transaction of a block CommitBlock has replied for reads
\* that value from storage, also in a Shell restarted on the same DB.
C1_AcceptedWritesVisibleAndDurable ==
    /\ LastAccepted =>
         \A k \in Keys :
            hist.accepted[k].tag # "none" =>
               wl_read(write_log, storage, k) = Visible(hist.accepted[k])
    /\ Serving =>
         \A k \in Keys :
            hist.committed[k].tag # "none" =>
               storage_read(storage, k) = Visible(hist.committed[k])

\* C2: an ApplyTx that ends with a non-empty rejection set leaves the
\* transaction scope empty and the block scope, storage and the DB exactly
\* as they were before it.
C2_RejectedTxLeavesNoWrite ==
    [][(last'.kind = "ApplyTx" /\ last'.reply.rejected # {}) =>
          /\ write_log'.tx = EmptyScope
          /\ write_log'.block = write_log.block
          /\ storage' = storage
          /\ disk' = disk]_vars
\* A write of a new value to a key was rejected while the block scope held
\* the entries of a transaction accepted earlier in the block.
C2_Witness ==
    /\ LastIsApplyTx /\ last.reply.rejected # {}
    /\ last.arg.kind = "write"
    /\ write_log.block # EmptyScope
    /\ hist.accepted # EmptyScope
    /\ wl_read(write_log, storage, last.arg.key) # Raw(last.arg.val)

\* C3: an ApplyTx for which the pipeline returns an error leaves the
\* transaction scope empty and the block scope and storage as they were.
C3_FailedTxScopeDropped ==
    [][(last'.kind = "ApplyTx" /\ ~last'.reply.ok) =>
          /\ write_log'.tx = EmptyScope
          /\ write_log'.block = write_log.block
          /\ storage' = storage]_vars

\* C4: a dry-run query changes nothing of the Shell but the reply it sends:
\* the gas meter, both scopes of the write log, storage and the DB after it
\* are what they were before it (so whatever follows runs as without it).
C4_DryRunIsolation ==
    [][(last'.kind = "AbciQuery" /\ last'.arg.path = "dry_run_tx") =>
          UNCHANGED <<running, storage, gas_meter, write_log, disk, hist>>]_vars
\* A dry run of a transfer that runs to an accepted result, inside a block
\* that has consumed gas and holds accepted writes.
C4_Witness ==
    /\ last.kind = "AbciQuery" /\ last.arg.path = "dry_run_tx"
    /\ last.reply.ok /\ last.reply.out.gas_used > 0
    /\ last.arg.data = TheTransfer
    /\ hist.phase = "open"
    /\ gas_meter.block_gas > 0
    /\ write_log.block # EmptyScope

\* C5: a balances query, for a decodable or an undecodable address, leaves
\* the gas meter, the write log, storage and the DB unchanged, and a
\* balances query that directly follows one for the same address gets the
\* same reply.
C5_BalancesQueryFrame ==
    [][(last'.kind = "AbciQuery" /\ last'.arg.path = "balances") =>
          /\ UNCHANGED <<running, storage, gas_meter, write_log, disk>>
          /\ (/\ last.kind = "AbciQuery"
              /\ last.arg.path = "balances"
              /\ last.arg.data = last'.arg.data) => last'.reply = last.reply]_vars
\* A balances query answered inside a block with pending accepted writes and
\* consumed gas.
C5_Witness ==
    /\ last.kind = "AbciQuery" /\ last.arg.path = "balances"
    /\ last.reply.ok /\ last.reply.out # <<>>
    /\ hist.phase = "open"
    /\ gas_meter.block_gas > 0
    /\ write_log.block # EmptyScope

\* C6: within a block the gas values returned by the ApplyTx calls sum to at
\* most the block ceiling, and an ApplyTx that fails for gas exhaustion
\* returns at least the gas the meter has recorded for the transaction.
C6_BlockGasWithinCeiling ==
    /\ hist.gas_sum <= BlockGasLimit
    /\ (LastIsApplyTx /\ last.reply.err = "gas") =>
          last.reply.gas >= get_current_transaction_gas(gas_meter)

\* C7: BeginBlock(hash, h) succeeds exactly when h is the successor of
\* storage's last committed height; then (hash, h) is the block in progress
\* and the committed height is as before; otherwise the Shell stops without
\* a block in progress and the DB is as before.
C7_BeginBlockHeightChecked ==
    [][last'.kind = "BeginBlock" =>
          /\ last'.sent <=> (last'.arg.height = storage.height + 1)
          /\ disk' = disk
          /\ IF last'.sent
             THEN /\ running'
                  /\ storage'.next_height = last'.arg.height
                  /\ storage'.next_hash = last'.arg.hash
                  /\ storage'.height = storage.height
                  /\ storage'.store = storage.store
             ELSE ~running' /\ storage' = storage_new]_vars
\* A BeginBlock for the height that is already committed and persisted was
\* refused.
C7_Witness ==
    /\ last.kind = "BeginBlock" /\ ~last.sent
    /\ disk.has_block /\ disk.height >= 1
    /\ last.arg.height = disk.height

\* C8: once CommitBlock has replied root R for height h, a GetInfo (in
\* particular the one after a restart on the same DB) replies (R, h).
C8_RecoveredStateIsLastCommit ==
    (last.kind = "GetInfo" /\ hist.commit.some) =>
       last.reply = [some |-> TRUE, root |-> hist.commit.root,
                     height |-> hist.commit.height]

\* C9: after InitChain, BeginBlock(H1, 1), the accepted ApplyTx of the
\* transfer of 10 XAN from A to B, EndBlock(1) and CommitBlock on a fresh
\* Shell, a balances query for A replies A's genesis balance less 10 and one
\* for B replies B's genesis balance plus 10 (the other token unchanged).
C9_TransferReflectedInBalances ==
    (hist.e2e = 5 /\ last.kind = "AbciQuery" /\ last.arg.path = "balances")
       => /\ last.arg.data = "A" =>
               last.reply =
                  [ok |-> TRUE,
                   out |-> <<[name |-> "BTC", amount |-> BtcGenesis],
                             [name |-> "XAN", amount |-> XanGenesis - 10]>>]
          /\ last.arg.data = "B" =>
               last.reply =
                  [ok |-> TRUE,
                   out |-> <<[name |-> "BTC", amount |-> BtcGenesis],
                             [name |-> "XAN", amount |-> XanGenesis + 10]>>]
\* The balances query for B answered after the five messages.
C9_Witness ==
    /\ hist.e2e = 5
    /\ last.kind = "AbciQuery" /\ last.arg.path = "balances"
    /\ last.arg.data = "B" /\ last.reply.ok
    /\ storage.height = 1

\* C10: a GetInfo answered while no CommitBlock has replied since the DB was
\* last reset or created replies None; and reset succeeds, leaving no DB
\* directory, whether or not there was one.
C10_GetInfoAfterResetIsNone ==
    /\ (last.kind = "GetInfo" /\ ~hist.commit.some) => ~last.reply.some
    /\ last.kind = "Reset" => (last.reply.ok /\ ~disk.exists)
\* GetInfo answered by a Shell started after the reset of a DB that held a
\* persisted block.
C10_Witness ==
    /\ last.kind = "GetInfo" /\ last.sent
    /\ hist.wiped /\ ~hist.commit.some
    /\ disk.exists

\* C11: MempoolValidate accepts exactly when the bytes decode, whichever
\* the kind (new or recheck), and leaves the write log, storage, the gas
\* meter and the DB unchanged.
C11_MempoolValidateDecodeOnly ==
    [][last'.kind = "MempoolValidate" =>
          /\ last'.sent
          /\ last'.reply.ok <=> (last'.arg.wire = "ok")
          /\ UNCHANGED <<running, storage, gas_meter, write_log, disk>>]_vars
\* A recheck of undecodable bytes was refused inside a block that has
\* consumed gas and holds accepted writes.
C11_Witness ==
    /\ last.kind = "MempoolValidate"
    /\ last.arg.type = "RecheckTransaction"
    /\ last.arg.wire # "ok" /\ ~last.reply.ok
    /\ hist.phase = "open"
    /\ gas_meter.block_gas > 0
    /\ write_log.block # EmptyScope

\* C12: the first InitChain sets the chain id; a later InitChain with a
\* different id fails, one with the same id changes nothing; and while the
\* Shell runs no message changes a chain id that is set.
C12_ChainIdWriteOnce ==
    [][/\ (last'.kind = "InitChain" /\ storage.chain_id = NoChain) =>
             (last'.sent /\ storage'.chain_id = last'.arg)
       /\ (last'.kind = "InitChain" /\ storage.chain_id # NoChain) =>
             IF last'.arg = storage.chain_id
             THEN last'.sent /\ storage' = storage
             ELSE ~last'.sent /\ ~running' /\ disk' = disk
       /\ (storage.chain_id # NoChain /\ running') =>
             (last'.kind = "Start" \/ storage'.chain_id = storage.chain_id)]_vars
\* An InitChain with another id than the one set was refused.
C12_Witness ==
    /\ last.kind = "InitChain" /\ ~last.sent
    /\ last.arg # GenesisChainId
    /\ ~running

\* C13: right after every BeginBlock the block scope is empty, and a
\* CommitBlock changes in storage only keys written by transactions accepted
\* since the latest BeginBlock.
C13_BeginBlockOpensFreshScope ==
    [][/\ (last'.kind = "BeginBlock" /\ last'.sent) =>
             write_log'.block = EmptyScope
       /\ last'.kind = "CommitBlock" =>
             \A k \in Keys :
                storage'.store[k] # storage.store[k] =>
                   hist.accepted[k].tag # "none"]_vars

C15_CommittedStateOnlyByCommit ==
    [][(/\ running'
        /\ \/ last'.kind \in {"InitChain", "MempoolValidate", "BeginBlock",
                              "ApplyTx", "EndBlock", "AbciQuery"}
           \/ (last'.kind = "GetInfo" /\ hist.phase # "boot"))
          => /\ storage'.height = storage.height
             /\ storage'.hash = storage.hash
             /\ merkle_root(storage') = merkle_root(storage)]_vars

\* A step in which the Shell handles CommitBlock, and one in which it
\* handles any other message and lives on.
CommitBlockStep == hist.phase = "ended" /\ last'.kind = "CommitBlock"
OtherMessageStep ==
    /\ running'
    /\ last'.kind \in {"GetInfo", "InitChain", "MempoolValidate", "BeginBlock",
                       "ApplyTx", "EndBlock", "AbciQuery"}

\* C16: CommitBlock writes every block-scope entry into storage (a value as
\* a write, a deletion marker as a delete, the other keys as they were),
\* leaves the block scope empty, has storage persist the block when the
\* DB write succeeds, and replies the Merkle root of storage after the
\* flush; no other message empties a block scope that holds entries.
C16_CommitBlockFlushesBlockScope ==
    [][/\ CommitBlockStep =>
            /\ \A k \in Keys :
                  storage'.store[k] =
                     IF write_log.block[k].tag = "none" THEN storage.store[k]
                     ELSE Visible(write_log.block[k])
            /\ write_log'.block = EmptyScope
            /\ last'.sent /\ last'.reply = [root |-> merkle_root(storage')]
            /\ last'.arg => /\ disk'.has_block
                            /\ disk'.store = storage'.store
                            /\ disk'.height = storage.next_height
       /\ (OtherMessageStep /\ write_log.block # EmptyScope)
            => write_log'.block # EmptyScope]_vars
\* CommitBlock has flushed and persisted a block scope that held a deletion
\* marker: the key is gone from storage and from the DB, the others stay.
C16_Witness ==
    /\ last.kind = "CommitBlock" /\ last.arg
    /\ last.reply = [root |-> merkle_root(storage)]
    /\ write_log.block = EmptyScope
    /\ \E k \in Keys :
          /\ hist.committed[k].tag = "del"
          /\ storage.store[k] = NoEntry /\ disk.store[k] = NoEntry
          /\ \A j \in Keys \ {k} : storage.store[j] = GenesisStore[j]

\* C17: a CommitBlock whose caller got a Merkle root as its reply has
\* persisted the block: the DB holds a block with that root at the height
\* that was committed.
C17_FailedCommitNotRepliedAsSuccess ==
    (last.kind = "CommitBlock" /\ last.sent /\ "root" \in DOMAIN last.reply)
       => /\ disk.has_block
          /\ merkle_root(disk) = last.reply.root
          /\ disk.height = hist.commit.height

\* C18: the message the Shell handled last has got its reply: the handler
\* of every message sends one reply before run() receives the next message.
C18_EveryMessageGetsItsReply ==
    last.kind \in MessageKinds => last.sent

PipelineErrors == {"decode", "tx", "gas", "vp"}

\* C19: every ApplyTx is replied to with a pair of the gas used and the
\* result of that very transaction run on the state the message found: the
\* TxResult of an accepted or of a rejected transaction, or the error of
\* the pipeline; the messages of a block are replied to one by one, each
\* in the step that handles it.
C19_ApplyTxRepliesGasAndOwnResult ==
    [][last'.kind = "ApplyTx" =>
         LET own(r, reply) ==
               /\ reply.gas \in 0..(MaxGas + 3)
               /\ reply.ok = r.ok
               /\ r.ok => /\ reply.err = ""
                          /\ reply.rejected = r.rejected
                          /\ reply.gas = r.gas_used
               /\ ~r.ok => reply.err = r.err /\ reply.err \in PipelineErrors
         IN /\ last'.sent
            /\ DOMAIN last'.reply = {"gas", "ok", "err", "rejected"}
            /\ own(protocol_apply_tx(last'.arg, gas_meter, write_log, storage),
                   last'.reply)]_vars
\* The second ApplyTx of a block got an error (or a rejection) for its
\* reply after an earlier one of the block was accepted and charged.
C19_Witness ==
    /\ hist.phase = "open"
    /\ hist.accepted # EmptyScope
    /\ LastIsApplyTx /\ last.sent
    /\ ~LastAccepted
    /\ hist.gas_sum > last.reply.gas

\* run() has returned a channel error.
ChannelFailed(l) ==
    l.reply \in {[error |-> "AbciChannelRecvError"],
                 [error |-> "AbciChannelSendError"]}

\* C20: a failed receive and a failed send of a reply end run(); from then
\* on the Shell handles no message and neither its memory nor its DB
\* changes, until the node is started again or its DB is reset.
C20_ChannelFailureEndsRun ==
    [][/\ ChannelFailed(last') => ~running'
       /\ (ChannelFailed(last) /\ ~running) =>
            /\ last'.kind \notin MessageKinds
            /\ ~running' => /\ memory' = memory
                            /\ disk' = disk \/ last'.kind = "Reset"]_vars
\* run() has ended on the failed send of CommitBlock's reply, after the
\* block was persisted.
C20_Witness ==
    /\ ~running
    /\ last.kind = "CommitBlock" /\ ~last.sent /\ ChannelFailed(last)
    /\ disk.has_block
    /\ memory = <<storage_new, gas_default, write_log_new>>

\* C21: an ApplyTx whose transaction fails to decode, fails in the pipeline
\* or is rejected is replied to with that error or rejection, and the Shell
\* lives on in the same block with storage and the DB as they were; a
\* MempoolValidate and a dry-run query of bytes that fail to decode are
\* replied to with the error, and the Shell lives on.
C21_TxFailureIsRepliedAndNotFatal ==
    [][/\ last'.kind = "ApplyTx" =>
            LET told(r, reply) ==
                  ~(r.ok /\ is_accepted(r)) =>
                     /\ running' /\ last'.sent
                     /\ ~reply.ok \/ reply.rejected # {}
                     /\ ~r.ok => reply.err = r.err
                     /\ hist'.phase = hist.phase
                     /\ storage' = storage /\ disk' = disk
            IN told(protocol_apply_tx(last'.arg, gas_meter, write_log,
                                      storage), last'.reply)
       /\ (last'.kind = "MempoolValidate" /\ last'.arg.wire # "ok") =>
            /\ running' /\ last'.sent /\ ~last'.reply.ok
            /\ hist' = hist
       /\ (/\ last'.kind = "AbciQuery" /\ last'.arg.path = "dry_run_tx"
           /\ last'.arg.data.wire # "ok") =>
            /\ running' /\ last'.sent
            /\ ~last'.reply.ok /\ last'.reply.err = "decode"
            /\ hist' = hist]_vars
\* A block in which a transaction was accepted after an earlier one was
\* rejected has been committed, with the accepted writes in storage.
C21_Witness ==
    /\ last.kind = "CommitBlock" /\ last.sent
    /\ hist.failed = 2
    /\ \E k \in Keys : /\ hist.committed[k].tag # "none"
                        /\ storage_read(storage, k) = Visible(hist.committed[k])
                        /\ storage.store[k] # GenesisStore[k]

\* C22: a balances query whose address fails to decode, or during which a
\* read of storage fails, is replied to with an error, and leaves the gas
\* meter, the write log and storage as they were.
C22_BalancesErrorIsReplied ==
    [][(/\ last'.kind = "AbciQuery" /\ last'.arg.path = "balances"
        /\ ~Address_decode(last'.arg.data).ok \/ ~last'.arg.io)
          => /\ last'.sent /\ ~last'.reply.ok
             /\ UNCHANGED memory]_vars

C25_GetInfoReadOnly ==
    [][(last'.kind = "GetInfo" /\ hist.phase \in {"idle", "open", "ended"}) =>
          /\ last'.sent
          /\ last'.reply = IF disk.has_block
                           THEN [some |-> TRUE, root |-> merkle_root(disk),
                                 height |-> disk.height]
                           ELSE [some |-> FALSE, root |-> EmptyScope,
                                 height |-> 0]
          /\ UNCHANGED <<write_log, gas_meter, storage>>]_vars

\* The Shell is in a block: storage has a block in progress above the last
\* committed one.
InBlock(st) == st.next_height = st.height + 1

\* C26: while the Shell runs, only BeginBlock takes it from Idle into a
\* block and only CommitBlock takes it from a block back to Idle, and an
\* ApplyTx or EndBlock handled outside a block changes nothing of the
\* write log, the gas meter and storage.
C26_LifecycleStates ==
    [][(running /\ running' /\ last'.kind \in MessageKinds) =>
          /\ (~InBlock(storage) /\ InBlock(storage')) =>
                last'.kind = "BeginBlock"
          /\ (InBlock(storage) /\ ~InBlock(storage')) =>
                last'.kind = "CommitBlock"
          /\ (last'.kind \in {"ApplyTx", "EndBlock"} /\ ~InBlock(storage)) =>
                UNCHANGED memory]_vars

\* C27: EndBlock is acknowledged with a reply and leaves storage, both
\* scopes of the write log, the gas meter and the DB as they were, whatever
\* its height.
C27_EndBlockChangesNothing ==
    [][last'.kind = "EndBlock" =>
          /\ last'.sent /\ last'.reply = NoReply
          /\ running'
          /\ UNCHANGED <<storage, write_log, gas_meter, disk>>]_vars
\* EndBlock acknowledged for a height that is not that of the block in
\* progress, in a block that has consumed gas and holds accepted writes.
C27_Witness ==
    /\ last.kind = "EndBlock" /\ last.sent
    /\ last.arg # storage.next_height
    /\ gas_meter.block_gas > 0
    /\ write_log.block # EmptyScope

\* C28: an AbciQuery whose path is neither "dry_run_tx" nor "balances" gets
\* no reply, does not stop the Shell, and leaves the gas meter, the write
\* log, storage and the DB as they were.
C28_UnknownQueryPathUnanswered ==
    [][(/\ last'.kind = "AbciQuery"
        /\ last'.arg.path \notin {"dry_run_tx", "balances"}) =>
          /\ ~last'.sent /\ last'.reply = NoReply
          /\ running'
          /\ UNCHANGED <<storage, write_log, gas_meter, disk>>]_vars
\* A query with another path has gone unanswered inside a block that has
\* consumed gas and holds accepted writes, and the Shell runs.
C28_Witness ==
    /\ last.kind = "AbciQuery" /\ last.arg.path = "other"
    /\ ~last.sent /\ running
    /\ hist.phase = "open"
    /\ gas_meter.block_gas > 0
    /\ write_log.block # EmptyScope

\* The entry that decides a read of k: the highest scope holding one.
Deciding(wl, st, k) ==
    IF wl.tx[k].tag # "none" THEN wl.tx[k]
    ELSE IF wl.block[k].tag # "none" THEN wl.block[k]
    ELSE st.store[k]
C30_CommitOrDropExactlyOnce ==
    [][last'.kind = "ApplyTx" =>
          LET applied(r) ==
                write_log' = IF r.ok /\ is_accepted(r) THEN commit_tx(r.wl)
                             ELSE drop_tx(r.wl)
          IN applied(protocol_apply_tx(last'.arg, gas_meter, write_log,
                                       storage))]_vars

\* C31: whenever the Shell waits for the next message the transaction scope
\* of the write log is empty.
C31_TxScopeEmptyBetweenMessages ==
    running => write_log.tx = EmptyScope

\* C32: a message other than BeginBlock that the Shell survives leaves the
\* block-level gas counter equal or larger, and GetInfo, MempoolValidate,
\* EndBlock, CommitBlock and both queries leave it as it was.
C32_BlockGasMonotonic ==
    [][(running /\ running' /\ last'.kind \notin {"Start", "BeginBlock"}) =>
          /\ gas_meter'.block_gas >= gas_meter.block_gas
          /\ last'.kind \in {"GetInfo", "MempoolValidate", "EndBlock",
                             "CommitBlock", "AbciQuery"} =>
                gas_meter'.block_gas = gas_meter.block_gas]_vars
\* The block's transactions have consumed gas, a dry run that consumed gas
\* of its own was answered after EndBlock, and the counter still holds the
\* sum of the gas the block's ApplyTx calls returned.
C32_Witness ==
    /\ last.kind = "AbciQuery" /\ last.arg.path = "dry_run_tx"
    /\ last.reply.ok /\ last.reply.out.gas_used > 0
    /\ hist.phase = "ended"
    /\ gas_meter.block_gas > 0
    /\ gas_meter.block_gas = hist.gas_sum

\* C33: in every state the block-level gas counter is at most the ceiling,
\* and an ApplyTx that fails for gas exhaustion has charged nothing after
\* the addition that failed (it leaves the counter one charge above the
\* larger of the ceiling and the counter it started from).
C33_GasNeverAboveCeiling ==
    [][/\ gas_meter'.block_gas <= BlockGasLimit
       /\ (last'.kind = "ApplyTx" /\ last'.reply.err = "gas") =>
             gas_meter'.block_gas <=
                (IF gas_meter.block_gas > BlockGasLimit
                 THEN gas_meter.block_gas ELSE BlockGasLimit) + 1]_vars

\* C34: the gas an ApplyTx returns is the gas_used of the pipeline's result
\* when there is one, with the result's rejection set and no error message,
\* and the meter's current-transaction gas when the pipeline returns an
\* error, with the error message and no rejection set; the gas returned is
\* the gas the call has added to the block counter, and is positive for a
\* rejected transaction.
C34_GasAndOutcomeReported ==
    [][last'.kind = "ApplyTx" =>
          LET reported(r) ==
                /\ r.ok =>
                      /\ last'.reply.ok /\ last'.reply.err = ""
                      /\ last'.reply.gas = as_i64(r.gas_used)
                      /\ last'.reply.rejected = r.rejected
                      /\ r.rejected # {} => last'.reply.gas > 0
                /\ ~r.ok =>
                      /\ ~last'.reply.ok /\ last'.reply.err = r.err
                      /\ last'.reply.err # "" /\ last'.reply.rejected = {}
                      /\ last'.reply.gas =
                            as_i64(get_current_transaction_gas(gas_meter'))
                /\ last'.reply.gas =
                      gas_meter'.block_gas - gas_meter.block_gas
          IN reported(protocol_apply_tx(last'.arg, gas_meter, write_log,
                                        storage))]_vars
\* After a transaction of the block was rejected, with its gas reported, a
\* transaction has failed with a pipeline error that had consumed gas, and
\* that gas was returned with the error.
C34_Witness ==
    /\ LastIsApplyTx /\ ~last.reply.ok /\ last.reply.err # ""
    /\ last.reply.gas > 0
    /\ last.reply.gas = get_current_transaction_gas(gas_meter)
    /\ hist.failed = 1
    /\ hist.gas_sum > last.reply.gas

C36_BalancesFromStorage ==
    [][(/\ last'.kind = "AbciQuery" /\ last'.arg.path = "balances"
        /\ last'.arg.io /\ last'.arg.data \in Users) =>
          LET out == last'.reply.out
              key(t) == balance_key(t, last'.arg.data)
          IN /\ last'.sent /\ last'.reply.ok
             /\ \A i \in 1..Len(out) :
                   /\ try_to_vec(out[i].amount) = storage.store[key(out[i].name)]
                   /\ (/\ hist.phase \in {"open", "ended"}
                       /\ hist.accepted[key(out[i].name)].tag # "none") =>
                         try_to_vec(out[i].amount) #
                            hist.accepted[key(out[i].name)]
             /\ \A t \in TokenSet :
                   storage.store[key(t)].tag = "amt" =>
                      \E i \in 1..Len(out) : out[i].name = t]_vars
\* Between the accepted transfer of 10 from A to B and CommitBlock, a
\* balances query for A was answered with A's genesis XAN balance, while a
\* read through the write log finds the balance the transfer wrote.
C36_Witness ==
    /\ last.kind = "AbciQuery" /\ last.arg.path = "balances"
    /\ last.arg.data = "A" /\ last.reply.ok
    /\ hist.phase \in {"open", "ended"}
    /\ hist.accepted[balance_key("XAN", "A")] = try_to_vec(XanGenesis - 10)
    /\ wl_read(write_log, storage, balance_key("XAN", "A")) =
          try_to_vec(XanGenesis - 10)
    /\ \E i \in 1..Len(last.reply.out) :
          last.reply.out[i] = [name |-> "XAN", amount |-> XanGenesis]

\* C37: a dry run of a transfer succeeds exactly when the source balance
\* read through the Shell's write log (the writes accepted in the block in
\* progress over storage) covers the amount; and a dry run never fails for
\* gas exhaustion and reports the gas of its own operations, whatever the
\* block has consumed.
C37_DryRunSeesBlockOnFreshMeter ==
    [][(/\ last'.kind = "AbciQuery" /\ last'.arg.path = "dry_run_tx"
        /\ last'.arg.data.wire = "ok") =>
          LET tx == last'.arg.data
              seen == try_from_slice(
                         wl_read(write_log, storage,
                                 balance_key("XAN", tx.src)))
          IN /\ tx.kind = "transfer" =>
                   (last'.reply.ok <=> (seen.ok /\ seen.amount >= tx.amount))
             /\ last'.reply.err # "gas"
             /\ last'.reply.ok =>
                   last'.reply.out.gas_used =
                      Len(TxWrites(tx, write_log, storage)) * WriteGas
                         + VpGas]_vars
\* After the accepted transfer of 10 from A to B, in the same block, the
\* dry run of a transfer of A's whole genesis balance fails although
\* storage still holds that balance for A.
C37_Witness ==
    /\ last.kind = "AbciQuery" /\ last.arg.path = "dry_run_tx"
    /\ last.arg.data = TransferAll
    /\ ~last.reply.ok /\ last.reply.err = "tx"
    /\ hist.phase = "open"
    /\ write_log.tx = EmptyScope
    /\ write_log.block[balance_key("XAN", "A")] = try_to_vec(XanGenesis - 10)
    /\ storage_read(storage, balance_key("XAN", "A")) = try_to_vec(XanGenesis)

\* C38: a message that changes the key/value contents of the storage of a
\* Shell that has loaded its state is a CommitBlock or a BeginBlock with
\* the patch height; BeginBlock with another height, InitChain, ApplyTx,
\* EndBlock, MempoolValidate, GetInfo and the queries leave them as they
\* were.
C38_StorageWrittenByCommitAndPatch ==
    [][(/\ running /\ running' /\ last'.kind # "Start"
        /\ hist.phase # "boot"
        /\ storage'.store # storage.store) =>
          \/ last'.kind = "CommitBlock"
          \/ last'.kind = "BeginBlock" /\ last'.arg.height = PatchHeight]_vars

\* C39: a GetInfo for which storage fails to load its last state is replied
\* None, the reply of a Shell on a DB without a committed block, and the
\* Shell keeps running with its gas meter, write log and DB as they were.
C39_LoadFailureRepliesNone ==
    [][(last'.kind = "GetInfo" /\ ~last'.arg.io) =>
          /\ last'.sent
          /\ last'.reply = NoCommit
          /\ running'
          /\ UNCHANGED <<gas_meter, write_log, disk>>]_vars
\* The load failed on a DB that holds a committed block, in a Shell whose
\* storage is at that block: None was replied and the Shell runs.
C39_Witness ==
    /\ last.kind = "GetInfo" /\ ~last.arg.io
    /\ last.sent /\ ~last.reply.some
    /\ running
    /\ disk.has_block /\ storage.height > 0

\* C40: an InitChain whose chain id storage refuses gets no reply and stops
\* the Shell; a stopped Shell handles no message; and an ApplyTx, a
\* MempoolValidate or a query that ends in an error gets the error as its
\* reply and leaves the Shell running.
C40_InitChainFailureIsFatal ==
    [][/\ (/\ last'.kind = "InitChain"
           /\ ~storage_set_chain_id(storage, last'.arg).ok) =>
             /\ ~last'.sent /\ last'.reply = NoReply
             /\ ~running'
       /\ ~running => last'.kind \in {"Start", "Reset"}
       /\ (/\ last'.kind \in {"ApplyTx", "MempoolValidate", "AbciQuery"}
           /\ last'.sent /\ ~last'.reply.ok) =>
             running']_vars
\* The Shell has stopped on an InitChain that storage refused, without a
\* reply, and its memory is gone.
C40_Witness ==
    /\ last.kind = "InitChain" /\ ~last.sent /\ last.reply = NoReply
    /\ ~running /\ hist.phase = "dead"
    /\ storage = storage_new
====
